---------------------------- MODULE Spec2Model ----------------------------
(***************************************************************************)
(* smartformat-korean: the Hangul phoneme codec, the particle registry,    *)
(* the allomorph selection of particles and the copula fusion.             *)
(*                                                                         *)
(* Representation.  A character is its Unicode codepoint; a string is a    *)
(* sequence of codepoints.  Python's None is PyNone and the empty string   *)
(* used as a phoneme is EmptyStr (a phoneme is otherwise one codepoint).   *)
(* The outcome of a call is a record [kind, val]: kind "ok" with the       *)
(* returned string (or phoneme tuple) in val, kind "None" for a call that  *)
(* returns None, or the name of the exception the call raises.             *)
(***************************************************************************)
EXTENDS Integers, Sequences, FiniteSets

VARIABLES
    pc,        \* the position of the running operation
    py,        \* major version of the interpreter: decides what "/" does
    letter,    \* codec: the letter handed to split_phonemes
    phonemes,  \* codec: the outcome of split_phonemes
    joined,    \* codec: the outcome of join_phonemes
    plist,     \* registry build: the particle list being indexed
    index,     \* registry build: the form -> particle map built so far
    pos,       \* registry build: <<i, j>>, the next particle and its next form
    word,      \* the word (ko's value) of the current call
    particle,  \* the particle of the current call, or the one ko has bound
    name,      \* ko: the extension name ("ko" explicit, "" implicit)
    option,    \* ko: the option; Ida.__call__: the verb
    format,    \* ko: the format text
    result     \* the outcome of the current call

vars == <<pc, py, letter, phonemes, joined, plist, index, pos,
          word, particle, name, option, format, result>>

-----------------------------------------------------------------------------
(* Bounds of the input sets. *)

MaxWordLen == 5
MaxVerbLen == 4
MaxKoLen == 3
MaxListLen == 2

-----------------------------------------------------------------------------
(* Python values and characters the code names. *)

PyNone == 0
EmptyStr == -1
LPAREN == 40
RPAREN == 41
NEWLINE == 10
RIEUL == 12601
IEUNG == 12615
VOWEL_I == 12643
SYL_I == 51060
HYPHEN == 45

Ok(v) == [kind |-> "ok", val |-> v]
Raise(e) == [kind |-> e, val |-> <<>>]
NoResult == [kind |-> "none yet", val |-> <<>>]

Min(S) == CHOOSE x \in S : \A y \in S : x <= y

\* list.index(x): the 0-based position of the first element equal to x.
ListIndex(table, x) == Min({i \in 1..Len(table) : table[i] = x}) - 1
InList(table, x) == \E i \in 1..Len(table) : table[i] = x

-----------------------------------------------------------------------------
(* The phoneme tables. *)

JAMO_INITIALS ==
    <<12593, 12594, 12596, 12599, 12600, 12601, 12609, 12610, 12611, 12613,
      12614, 12615, 12616, 12617, 12618, 12619, 12620, 12621, 12622>>
JAMO_VOWELS ==
    <<12623, 12624, 12625, 12626, 12627, 12628, 12629, 12630, 12631, 12632,
      12633, 12634, 12635, 12636, 12637, 12638, 12639, 12640, 12641, 12642,
      12643>>
JAMO_FINALS ==
    <<12593, 12594, 12595, 12596, 12597, 12598, 12599, 12601, 12602, 12603,
      12604, 12605, 12606, 12607, 12608, 12609, 12610, 12612, 12613, 12614,
      12615, 12616, 12618, 12619, 12620, 12621, 12622>>

\* smartformat_korean/hangul.py
ONSETS == JAMO_INITIALS
NUCLEUSES == JAMO_VOWELS
CODAS == <<EmptyStr>> \o JAMO_FINALS
NUM_ONSETS == Len(ONSETS)
NUM_NUCLEUSES == Len(NUCLEUSES)
NUM_CODAS == Len(CODAS)

\* smartformatkorean.py
INITIALS == JAMO_INITIALS
VOWELS == JAMO_VOWELS
FINALS == <<PyNone>> \o JAMO_FINALS
NUM_INITIALS == Len(INITIALS)
NUM_VOWELS == Len(VOWELS)
NUM_FINALS == Len(FINALS)

FIRST_HANGUL_OFFSET == 44032

\* u'가' <= letter <= u'힣' for a one-character string.
is_hangul(ch) == 44032 <= ch /\ ch <= 55203

Syllables == 44032..55203

-----------------------------------------------------------------------------
(* The codec of smartformat_korean/hangul.py. *)

OnsetIndex(offset) == offset \div (NUM_NUCLEUSES * NUM_CODAS)
\* The nucleus index taken modulo the number of onsets.
NucleusIndexBad(offset) == (offset \div NUM_CODAS) % NUM_ONSETS
NucleusIndex(offset) == (offset \div NUM_CODAS) % NUM_NUCLEUSES
CodaIndex(offset) == offset % NUM_CODAS

\* split_phonemes(letter, onset, nucleus, coda); letter is a string.
hangul_split_phonemes(l, onset, nucleus, coda) ==
    IF Len(l) # 1 \/ ~is_hangul(l[1])
    THEN Raise("ValueError")
    ELSE LET offset == l[1] - FIRST_HANGUL_OFFSET
         IN  Ok(<<IF onset THEN ONSETS[OnsetIndex(offset) + 1] ELSE PyNone,
                  IF nucleus THEN NUCLEUSES[NucleusIndex(offset) + 1] ELSE PyNone,
                  IF coda THEN CODAS[CodaIndex(offset) + 1] ELSE PyNone>>)

\* join_phonemes(args) called with one tuple argument.
hangul_join_phonemes(args) ==
    LET a == IF Len(args) = 2 THEN args \o <<CODAS[1]>> ELSE args
    IN  IF Len(a) # 3
        THEN Raise("TypeError")
        ELSE IF ~InList(ONSETS, a[1]) \/ ~InList(NUCLEUSES, a[2])
                \/ ~InList(CODAS, a[3])
        THEN Raise("ValueError")
        ELSE Ok(<<FIRST_HANGUL_OFFSET
                  + (ListIndex(ONSETS, a[1]) * NUM_NUCLEUSES
                     + ListIndex(NUCLEUSES, a[2])) * NUM_CODAS
                  + ListIndex(CODAS, a[3])>>)

-----------------------------------------------------------------------------
(* The codec of smartformatkorean.py. *)

\* "/" on two ints floors in Python 2 and yields a float from Python 3 on;
\* a float is no list index (TypeError).
DivIsFloat(v) == v = 3

\* split_phonemes(letter, initial, vowel, final); letter is a string.
split_phonemes(l, initial, vowel, final, v) ==
    IF Len(l) # 1 \/ ~is_hangul(l[1])
    THEN Raise("ValueError")
    ELSE IF (initial \/ vowel) /\ DivIsFloat(v)
    THEN Raise("TypeError")
    ELSE LET offset == l[1] - FIRST_HANGUL_OFFSET
         IN  Ok(<<IF initial
                  THEN INITIALS[(offset \div (NUM_VOWELS * NUM_FINALS)) + 1]
                  ELSE PyNone,
                  IF vowel
                  THEN VOWELS[((offset \div NUM_FINALS) % NUM_VOWELS) + 1]
                  ELSE PyNone,
                  IF final THEN FINALS[(offset % NUM_FINALS) + 1] ELSE PyNone>>)

\* join_phonemes(initial, vowel, final); unichr is a builtin of Python 2 only.
join_phonemes(args, v) ==
    LET a == IF Len(args) = 2 THEN args \o <<PyNone>> ELSE args
    IN  IF Len(a) # 3
        THEN Raise("TypeError")
        ELSE IF ~InList(INITIALS, a[1]) \/ ~InList(VOWELS, a[2])
                \/ ~InList(FINALS, a[3])
        THEN Raise("ValueError")
        ELSE IF v = 3
        THEN Raise("NameError")
        ELSE Ok(<<FIRST_HANGUL_OFFSET
                  + (ListIndex(INITIALS, a[1]) * NUM_VOWELS
                     + ListIndex(VOWELS, a[2])) * NUM_FINALS
                  + ListIndex(FINALS, a[3])>>)

\* pick_final(letter): the outcome of the split, its val the final alone.
pick_final(l, v) ==
    LET r == split_phonemes(l, FALSE, FALSE, TRUE, v)
    IN  IF r.kind = "ok" THEN Ok(<<r.val[3]>>) ELSE r

-----------------------------------------------------------------------------
(* ENDING_BRACKET_PATTERN.sub(u'', word), the pattern being \(.*?\)$ :     *)
(* "$" matches at the end of the string and before a newline that ends it, *)
(* "." matches anything but a newline, and the search is for the leftmost  *)
(* "(" from which the rest of the pattern can match.                       *)

\* Where the match's ")" must stand (0: nowhere).
BracketEnd(w) ==
    IF Len(w) >= 1 /\ w[Len(w)] = RPAREN THEN Len(w)
    ELSE IF Len(w) >= 2 /\ w[Len(w)] = NEWLINE /\ w[Len(w) - 1] = RPAREN
    THEN Len(w) - 1
    ELSE 0

BracketStarts(w) ==
    {i \in 1..(BracketEnd(w) - 1) :
        /\ w[i] = LPAREN
        /\ \A k \in (i + 1)..(BracketEnd(w) - 1) : w[k] # NEWLINE}

ending_bracket_sub(w) ==
    IF BracketStarts(w) = {}
    THEN w
    ELSE SubSeq(w, 1, Min(BracketStarts(w)) - 1)
         \o SubSeq(w, BracketEnd(w) + 1, Len(w))

-----------------------------------------------------------------------------
(* Particle, Euro. *)

\* Particle.combine_forms
combine_forms(form1, form2) == form1 \o <<LPAREN>> \o form2 \o <<RPAREN>>

\* Particle(form1, form2, default=None)
Particle(form1, form2) ==
    [cls |-> "Particle", form1 |-> form1, form2 |-> form2,
     default |-> combine_forms(form1, form2)]
ParticleD(form1, form2, default) ==
    [cls |-> "Particle", form1 |-> form1, form2 |-> form2, default |-> default]

\* class Euro: 으로, 로, (으)로
Euro ==
    [cls |-> "Euro", form1 |-> <<51004, 47196>>, form2 |-> <<47196>>,
     default |-> <<LPAREN, 51004, RPAREN, 47196>>]

\* The two forms exchanged.
Particle_allomorph_swapped(p, final) ==
    IF final = PyNone THEN p.form1 ELSE p.form2

\* Particle.allomorph
Particle_allomorph(p, final) ==
    IF final = PyNone THEN p.form2 ELSE p.form1

\* The regular rule, without the exception for ㄹ.
Euro_allomorph_no_rieul(p, final) ==
    IF final = PyNone THEN p.form2 ELSE p.form1

\* Euro.allomorph
Euro_allomorph(p, final) ==
    IF final = PyNone \/ final = RIEUL THEN p.form2 ELSE p.form1

allomorph(p, final) ==
    IF p.cls = "Euro" THEN Euro_allomorph(p, final)
    ELSE Particle_allomorph(p, final)

\* Particle.__iter__
Forms(p) == <<p.default, p.form1, p.form2>>

\* Particle.__call__(word)
Particle_call(p, w, v) ==
    LET s == ending_bracket_sub(w)
    IN  IF s = <<>>
        THEN Raise("IndexError")
        ELSE LET r == pick_final(<<s[Len(s)]>>, v)
             IN  IF r.kind = "ValueError"
                 THEN Ok(p.default)
                 ELSE Ok(allomorph(p, r.val[1]))

-----------------------------------------------------------------------------
(* Ida, the copula. *)

\* Ida.j_injections = bidict({ㅓ: ㅕ, ㅔ: ㅖ}), as its pairs.
j_injections == {<<12627, 12629>>, <<12628, 12630>>}
InJ(x) == \E e \in j_injections : e[1] = x
InJInv(x) == \E e \in j_injections : e[2] = x
JMap(x) == (CHOOSE e \in j_injections : e[1] = x)[2]
JInvMap(x) == (CHOOSE e \in j_injections : e[2] = x)[1]

\* re.sub of \(이\) in the rest of the verb: every occurrence goes, each
\* search starting where the match before it ended.
RECURSIVE SubIParen(_)
SubIParen(s) ==
    IF s = <<>> THEN <<>>
    ELSE IF Len(s) >= 3 /\ s[1] = LPAREN /\ s[2] = SYL_I /\ s[3] = RPAREN
    THEN SubIParen(SubSeq(s, 4, Len(s)))
    ELSE <<s[1]>> \o SubIParen(Tail(s))

\* Ida.normalize_verb: re.sub(u'^이|\(이\)', u'', verb).  "^" binds to the
\* first alternative alone and matches at the start of the string only.
normalize_verb(verb) ==
    IF Len(verb) >= 1 /\ verb[1] = SYL_I
    THEN SubIParen(Tail(verb))
    ELSE SubIParen(verb)

\* The part of Ida.__call__ after the two splits: fusion, then the prefix.
Ida_fuse(final, verb, sp, v) ==
    LET next_initial == sp[1]
        next_vowel == sp[2]
        next_final == sp[3]
        mapped ==
            IF next_initial # IEUNG THEN PyNone
            ELSE IF final = PyNone /\ InJ(next_vowel) THEN JMap(next_vowel)
            ELSE IF final # PyNone /\ InJInv(next_vowel) THEN JInvMap(next_vowel)
            ELSE PyNone
        j == join_phonemes(<<IEUNG, mapped, next_final>>, v)
        fused == IF mapped = PyNone THEN verb ELSE j.val \o Tail(verb)
    IN  IF next_initial = IEUNG /\ next_vowel = VOWEL_I
        THEN Ok(verb)
        ELSE IF mapped # PyNone /\ j.kind # "ok"
        THEN j
        ELSE IF final = PyNone THEN Ok(fused)
        ELSE IF final = EmptyStr THEN Ok(<<LPAREN, SYL_I, RPAREN>> \o fused)
        ELSE Ok(<<SYL_I>> \o fused)

\* Ida.__call__(word, verb)
Ida_call(w, vb, v) ==
    LET s == ending_bracket_sub(w)
        verb == normalize_verb(vb)
    IN  IF s = <<>>
        THEN Raise("IndexError")
        ELSE LET r == pick_final(<<s[Len(s)]>>, v)
                 final == IF r.kind = "ValueError" THEN EmptyStr ELSE r.val[1]
             IN  IF verb = <<>>
                 THEN Raise("IndexError")
                 ELSE LET sp == split_phonemes(<<verb[1]>>, TRUE, TRUE, TRUE, v)
                      IN  IF sp.kind # "ok"
                          THEN sp
                          ELSE Ida_fuse(final, verb, sp.val, v)

-----------------------------------------------------------------------------
(* The registry. *)

\* PARTICLES
PARTICLES ==
    << Particle(<<51008>>, <<45716>>),            \* 은, 는
       Particle(<<51060>>, <<44032>>),            \* 이, 가
       Particle(<<51012>>, <<47484>>),            \* 을, 를
       Particle(<<44284>>, <<50752>>),            \* 과, 와
       Particle(<<50500>>, <<50556>>),            \* 아, 야
       ParticleD(<<51060, 50668>>, <<50668>>,
                 <<LPAREN, 51060, RPAREN, 50668>>),             \* 이여, 여
       ParticleD(<<51060, 49884, 50668>>, <<49884, 50668>>,
                 <<LPAREN, 51060, RPAREN, 49884, 50668>>),      \* 이시여, 시여
       Euro >>

\* The loop body without its duplicate test: a form is bound again.
IndexInsertRebind(idx, form, p) ==
    Ok([f \in (DOMAIN idx) \cup {form} |-> IF f = form THEN p ELSE idx[f]])

\* The body of the indexing loop: one form of one particle.
IndexInsert(idx, form, p) ==
    IF form \in DOMAIN idx
    THEN Raise("KeyError")
    ELSE Ok([f \in (DOMAIN idx) \cup {form} |-> IF f = form THEN p ELSE idx[f]])

EmptyIndex == [f \in {} |-> Euro]

\* The loop over a whole list, from particle i and form j on.
RECURSIVE BuildIndex(_, _, _, _)
BuildIndex(list, i, j, idx) ==
    IF i > Len(list) THEN Ok(idx)
    ELSE LET r == IndexInsert(idx, Forms(list[i])[j], list[i])
         IN  IF r.kind # "ok" THEN r
             ELSE IF j < 3 THEN BuildIndex(list, i, j + 1, r.val)
             ELSE BuildIndex(list, i + 1, 1, r.val)

\* _particle_index, as the module leaves it
particle_index == BuildIndex(PARTICLES, 1, 1, EmptyIndex).val

-----------------------------------------------------------------------------
(* ko, the resolution entry point.  The outcome's val is the particle text  *)
(* appended to the rendering of the value, which the host formatter makes.  *)

\* format.partition(u'-')[2]
AfterHyphen(f) == SubSeq(f, 2, Len(f))

\* The option ko resolves: its argument when the extension is named, and
\* the format text (after a leading hyphen) when it is not.
ko_option(nm, opt, fmt) ==
    IF nm # "" THEN opt
    ELSE IF Len(fmt) >= 1 /\ fmt[1] = HYPHEN THEN AfterHyphen(fmt)
    ELSE fmt

\* functools.partial(Ida, verb=option)
IdaPartial(verb) == [cls |-> "Ida", verb |-> verb]

\* try: particle = _particle_index[option]
\* except KeyError: particle = functools.partial(Ida, verb=option)
resolve_particle(idx, o) ==
    IF o \in DOMAIN idx THEN idx[o] ELSE IdaPartial(o)

\* particle(value), for either kind of callable ko binds
call_particle(p, value, v) ==
    IF p.cls = "Ida" THEN Ida_call(value, p.verb, v)
    ELSE Particle_call(p, value, v)

ko(idx, nm, opt, fmt, value, v) ==
    LET o == ko_option(nm, opt, fmt)
    IN  IF nm = "" /\ (o = <<>> \/ ~is_hangul(o[1]))
        THEN [kind |-> "None", val |-> <<>>]
        ELSE call_particle(resolve_particle(idx, o), value, v)

-----------------------------------------------------------------------------
(* The inputs. *)

Strings(alphabet, n) == UNION {[1..k -> alphabet] : k \in 0..n}

Interpreters == {2, 3}

\* ( ) newline a 가 곰
WordAlphabet == {40, 41, 10, 97, 44032, 44272}
SelectWords == Strings(WordAlphabet, MaxWordLen) \cup {<<c>> : c \in Syllables}

\* "", a, 가, 곰, 플, ")", "()", 가(a), 곰(가), 가(곰
FuseWords ==
    {<<>>, <<97>>, <<44032>>, <<44272>>, <<54540>>, <<41>>, <<40, 41>>,
     <<44032, 40, 97, 41>>, <<44272, 40, 44032, 41>>, <<44032, 40, 44272>>}
\* 이 ( ) 다 어 여 입
VerbAlphabet == {51060, 40, 41, 45796, 50612, 50668, 51077}
\* the syllables of onset ㅇ: 아 .. 잏
IeungSyllables == 50500..51087
Verbs == Strings(VerbAlphabet, MaxVerbLen) \cup {<<c>> : c \in IeungSyllables}

\* - 이 다 여 은 ( ) a
KoAlphabet == {45, 51060, 45796, 50668, 51008, 40, 41, 97}
KoTexts == Strings(KoAlphabet, MaxKoLen)
\* a 가 곰 플
KoWords == {<<97>>, <<44032>>, <<44272>>, <<54540>>, <<97, 44272>>, <<>>}

CodecLetters ==
    {<<c>> : c \in Syllables \cup {97, 12593, 44031, 55204}}
    \cup {<<>>, <<44032, 44032>>}

\* Particles for the lists the registry is built from: three of PARTICLES
\* and three that share forms with them or within themselves.
ParticlePool ==
    { PARTICLES[1], PARTICLES[2], Euro,
      Particle(<<51008>>, <<51060>>),                      \* 은, 이
      Particle(<<47196>>, <<47196>>),                      \* 로, 로
      ParticleD(<<50752>>, <<46993>>, <<51008>>) }         \* 와, 랑, default 은
ParticleLists ==
    {PARTICLES} \cup {PARTICLES \o <<q>> : q \in ParticlePool}
    \cup Strings(ParticlePool, MaxListLen)
LookupForms ==
    UNION {{q.default, q.form1, q.form2} : q \in ParticlePool} \cup {<<97>>}

-----------------------------------------------------------------------------
(* The state machine. *)

CodecIdle == letter = <<>> /\ phonemes = NoResult /\ joined = NoResult
\* The variables of the indexing loop outside the registry's build: a call
\* reads the finished registry, particle_index, which nothing changes.
RegistryIdle == plist = <<>> /\ index = EmptyIndex /\ pos = <<1, 1>>
CallIdle ==
    /\ word = <<>> /\ particle = Euro /\ name = "" /\ option = <<>>
    /\ format = <<>> /\ result = NoResult

CodecInit ==
    /\ pc = "codec_start"
    /\ py = 2
    /\ letter \in CodecLetters
    /\ phonemes = NoResult /\ joined = NoResult
    /\ RegistryIdle /\ CallIdle

\* hangul.split_phonemes(letter)
SplitPhonemes ==
    /\ pc = "codec_start"
    /\ phonemes' = hangul_split_phonemes(letter, TRUE, TRUE, TRUE)
    /\ pc' = IF phonemes'.kind = "ok" THEN "codec_split" ELSE "codec_error"
    /\ UNCHANGED <<py, letter, joined, plist, index, pos,
                   word, particle, name, option, format, result>>

\* hangul.join_phonemes(phonemes)
JoinPhonemes ==
    /\ pc = "codec_split"
    /\ joined' = hangul_join_phonemes(phonemes.val)
    /\ pc' = "codec_done"
    /\ UNCHANGED <<py, letter, phonemes, plist, index, pos,
                   word, particle, name, option, format, result>>

RegistryInit ==
    /\ pc = "indexing"
    /\ py = 2
    /\ plist \in ParticleLists
    /\ index = EmptyIndex
    /\ pos = <<1, 1>>
    /\ CodecIdle /\ CallIdle

\* One turn of the inner loop: if form in _particle_index: raise, else bind.
IndexForm ==
    /\ pc = "indexing"
    /\ pos[1] <= Len(plist)
    /\ LET p == plist[pos[1]]
           r == IndexInsert(index, Forms(p)[pos[2]], p)
       IN  IF r.kind = "ok"
           THEN /\ index' = r.val
                /\ pos' = IF pos[2] < 3 THEN <<pos[1], pos[2] + 1>>
                          ELSE <<pos[1] + 1, 1>>
                /\ pc' = "indexing"
           ELSE /\ pc' = r.kind
                /\ UNCHANGED <<index, pos>>
    /\ UNCHANGED <<py, letter, phonemes, joined, plist,
                   word, particle, name, option, format, result>>

\* The loop ends: the module is imported and ko can be called.
IndexDone ==
    /\ pc = "indexing"
    /\ pos[1] > Len(plist)
    /\ pc' = "ready"
    /\ UNCHANGED <<py, letter, phonemes, joined, plist, index, pos,
                   word, particle, name, option, format, result>>

\* ko binds its particle: the registry's entry for the option, or, the
\* KeyError of the subscript caught, the copula with the option as its verb.
LookupParticle ==
    /\ pc = "ready"
    /\ \E o \in LookupForms :
        /\ option' = o
        /\ particle' = resolve_particle(index, o)
    /\ pc' = "looked_up"
    /\ UNCHANGED <<py, letter, phonemes, joined, plist, index, pos,
                   word, name, format, result>>

SelectInit ==
    /\ pc = "select_start"
    /\ py \in Interpreters
    /\ word \in SelectWords
    /\ \E i \in 1..Len(PARTICLES) : particle = PARTICLES[i]
    /\ name = "" /\ option = <<>> /\ format = <<>> /\ result = NoResult
    /\ CodecIdle /\ RegistryIdle

\* particle(word)
ParticleCall ==
    /\ pc = "select_start"
    /\ result' = Particle_call(particle, word, py)
    /\ pc' = "select_done"
    /\ UNCHANGED <<py, letter, phonemes, joined, plist, index, pos,
                   word, particle, name, option, format>>

FuseInit ==
    /\ pc = "fuse_start"
    /\ py \in Interpreters
    /\ word \in FuseWords
    /\ option \in Verbs
    /\ particle = Euro /\ name = "" /\ format = <<>> /\ result = NoResult
    /\ CodecIdle /\ RegistryIdle

\* Ida(word, verb)
IdaCall ==
    /\ pc = "fuse_start"
    /\ result' = Ida_call(word, option, py)
    /\ pc' = "fuse_done"
    /\ UNCHANGED <<py, letter, phonemes, joined, plist, index, pos,
                   word, particle, name, option, format>>

KoInit ==
    /\ pc = "ko_start"
    /\ py \in Interpreters
    /\ word \in KoWords
    /\ \/ name = "ko" /\ option \in KoTexts /\ format = <<123, 125>>
       \/ name = "" /\ option = <<>> /\ format \in KoTexts
    /\ particle = Euro /\ result = NoResult
    /\ CodecIdle /\ RegistryIdle

\* ko(formatter, value, name, option, format)
KoCall ==
    /\ pc = "ko_start"
    /\ result' = ko(particle_index, name, option, format, word, py)
    /\ pc' = "ko_done"
    /\ UNCHANGED <<py, letter, phonemes, joined, plist, index, pos,
                   word, particle, name, option, format>>

CodecNext == SplitPhonemes \/ JoinPhonemes
RegistryNext == IndexForm \/ IndexDone \/ LookupParticle
SelectNext == ParticleCall
FuseNext == IdaCall
KoNext == KoCall

CodecSpec == CodecInit /\ [][CodecNext]_vars
RegistrySpec == RegistryInit /\ [][RegistryNext]_vars
SelectSpec == SelectInit /\ [][SelectNext]_vars
FuseSpec == FuseInit /\ [][FuseNext]_vars
KoSpec == KoInit /\ [][KoNext]_vars

Init == CodecInit \/ RegistryInit \/ SelectInit \/ FuseInit \/ KoInit
Next ==
    \/ SplitPhonemes \/ JoinPhonemes
    \/ IndexForm \/ IndexDone \/ LookupParticle
    \/ ParticleCall \/ IdaCall \/ KoCall
Spec == Init /\ [][Next]_vars

-----------------------------------------------------------------------------
(* The properties. *)

Last(w) == w[Len(w)]
\* The coda index of a syllable, by the arithmetic of the syllable block.
CodaOf(c) == (c - 44032) % 28
EndsInSyllable(w) == w # <<>> /\ Last(w) \in Syllables
Raised(r) == r.kind \in {"ValueError", "IndexError", "TypeError", "NameError", "KeyError"}

\* C1: splitting any syllable of 가..힣 and joining the triple gives the
\* syllable back, and the three indices of the split stay inside the tables
\* (onset 0..18, nucleus 0..20, coda 0..27).
C1_RoundTrip ==
    (Len(letter) = 1 /\ letter[1] \in Syllables) =>
        /\ pc # "codec_error"
        /\ pc = "codec_split" => phonemes.kind = "ok"
        /\ pc = "codec_done" =>
            /\ joined = Ok(letter)
            /\ OnsetIndex(letter[1] - 44032) \in 0..18
            /\ NucleusIndex(letter[1] - 44032) \in 0..20
            /\ CodaIndex(letter[1] - 44032) \in 0..27
            /\ phonemes.val[1] = ONSETS[OnsetIndex(letter[1] - 44032) + 1]
            /\ phonemes.val[2] = NUCLEUSES[NucleusIndex(letter[1] - 44032) + 1]
            /\ phonemes.val[3] = CODAS[CodaIndex(letter[1] - 44032) + 1]
            \* the copy in smartformatkorean.py, where "/" floors
            /\ join_phonemes(split_phonemes(letter, TRUE, TRUE, TRUE, 2).val, 2)
                 = Ok(letter)

\* The last syllable 힣 (onset 18, nucleus 20, coda 27) has made the round trip.
C1_Witness ==
    /\ pc = "codec_done"
    /\ letter = <<55203>>
    /\ phonemes = Ok(<<12622, 12643, 12622>>)
    /\ joined = Ok(<<55203>>)

\* C2: a regular particle called on a word that ends in a syllable returns
\* form2 (the form without coda) when the syllable's coda index is 0 and
\* form1 (the form with coda) when it is 1..27, and never the default form.
C2_RegularCoda ==
    (pc = "select_done" /\ particle.cls = "Particle" /\ EndsInSyllable(word)) =>
        /\ result.kind = "ok"
        /\ CodaOf(Last(word)) = 0 => result.val = particle.form2
        /\ CodaOf(Last(word)) \in 1..27 => result.val = particle.form1
        /\ result.val # particle.default

\* 은/는 after 피카곰-like words: a closed last syllable behind other
\* characters gave 은.
C2_Witness ==
    /\ pc = "select_done"
    /\ particle = PARTICLES[1]
    /\ Len(word) = MaxWordLen
    /\ Last(word) = 44272
    /\ result = Ok(<<51008>>)

\* C3: the directional particle called on a word that ends in a syllable
\* returns 로 exactly when the coda is absent (index 0) or ㄹ (index 8), and
\* 으로 for each of the other 26 codas.
C3_Directional ==
    (pc = "select_done" /\ particle.cls = "Euro" /\ EndsInSyllable(word)) =>
        /\ result.kind = "ok"
        /\ result.val \in {<<47196>>, <<51004, 47196>>}
        /\ result.val = <<47196>> <=> CodaOf(Last(word)) \in {0, 8}

\* 플 (coda ㄹ) took 로.
C3_Witness ==
    /\ pc = "select_done"
    /\ particle = Euro
    /\ word = <<54540>>
    /\ result = Ok(<<47196>>)

\* C4: a particle called on any word raises nothing, and returns the default
\* form whenever the word without its ending bracket does not end in a
\* syllable.
C4_NeverCrashes ==
    pc = "select_done" =>
        /\ result.kind = "ok"
        /\ ~EndsInSyllable(ending_bracket_sub(word)) => result.val = particle.default

\* C5: for a non-empty w and a text a, a particle that returns a form on
\* w(a) and on w returns the same form on both: only the bracket that ends
\* the word is ignored, and a bracket inside w changes nothing.  Stated for
\* the texts a without a line break, all of which "." matches.
C5_BracketStripping ==
    (pc = "select_done" /\ result.kind = "ok") =>
        \A i \in 2..Len(word) :
            (/\ word[i] = LPAREN
             /\ Last(word) = RPAREN
             /\ \A k \in (i + 1)..(Len(word) - 1) : word[k] # NEWLINE
             /\ Particle_call(particle, SubSeq(word, 1, i - 1), py).kind = "ok")
                => result = Particle_call(particle, SubSeq(word, 1, i - 1), py)

\* The syllable 이 with any coda: onset ㅇ, vowel ㅣ.
StartsWithI(v) == v # <<>> /\ v[1] \in 51060..51087
StrippedWord == ending_bracket_sub(word)

\* C6: whenever the copula returns, it returns the normalized verb, its
\* first syllable possibly another syllable, behind a prefix the word's coda
\* alone decides: none after an open syllable, 이 after a closed one, (이)
\* after a word that does not end in a syllable; only a verb that begins
\* with 이 after a closed syllable is returned as it is.
C6_CopulaPrefix ==
    (pc = "fuse_done" /\ result.kind = "ok") =>
        LET nv == normalize_verb(option)
            closed == EndsInSyllable(StrippedWord) /\ CodaOf(Last(StrippedWord)) # 0
            prefix == IF ~EndsInSyllable(StrippedWord) THEN <<LPAREN, SYL_I, RPAREN>>
                      ELSE IF closed THEN <<SYL_I>> ELSE <<>>
        IN  IF closed /\ StartsWithI(nv)
            THEN result.val = nv
            ELSE \E c \in Syllables : result.val = prefix \o <<c>> \o Tail(nv)

\* The first syllable the claim expects the returned verb to begin with.
\* Onset ㅇ is index 11; ㅓ, ㅔ are nuclei 4, 5 and ㅕ, ㅖ are 6, 7, so the
\* two exchanges move the codepoint by 2 * 28.
ExpectedFirst(c, w) ==
    LET off == c - 44032
        onset == off \div 588
        nucleus == (off \div 28) % 21
    IN  IF onset = 11 /\ EndsInSyllable(w) /\ CodaOf(Last(w)) = 0 /\ nucleus \in {4, 5}
        THEN c + 56
        ELSE IF onset = 11 /\ EndsInSyllable(w) /\ CodaOf(Last(w)) # 0
                /\ nucleus \in {6, 7}
        THEN c - 56
        ELSE c

\* C7: whenever the copula returns, the verb it returns is the normalized
\* verb with its first syllable changed in two cases only (ㅓ to ㅕ, ㅔ to ㅖ
\* after an open syllable; ㅕ to ㅓ, ㅖ to ㅔ after a closed syllable) and
\* left as it is in every other, in particular after a word that does not
\* end in a syllable; the rest of the verb is as it was.
C7_VowelFusion ==
    (pc = "fuse_done" /\ result.kind = "ok") =>
        LET nv == normalize_verb(option)
            n == Len(result.val)
        IN  /\ n >= Len(nv)
            /\ SubSeq(result.val, n - Len(nv) + 1, n)
                 = <<ExpectedFirst(nv[1], StrippedWord)>> \o Tail(nv)

\* C8: every key of the registry is bound to the one particle of the list
\* that has it among its forms, the two allomorphic forms of every listed
\* particle are keys once the registry is built, a list in which two
\* particles share a form ends in the KeyError and is never looked up in,
\* a form once bound is never bound again, and the lookup of a key binds
\* the key's one owner.
HasForm(q, k) == k = q.default \/ k = q.form1 \/ k = q.form2
Owners(k) == {i \in 1..Len(plist) : HasForm(plist[i], k)}
SharesForm(l) ==
    \E i, j \in 1..Len(l) : i < j /\ \E k \in {l[i].default, l[i].form1, l[i].form2} :
        HasForm(l[j], k)
C8_RegistryIntegrity ==
    /\ \A k \in DOMAIN index :
        /\ HasForm(index[k], k)
        /\ Owners(k) # {}
        /\ index[k] = plist[Min(Owners(k))]
    /\ pc \in {"ready", "looked_up"} =>
        /\ \A k \in DOMAIN index : Cardinality(Owners(k)) = 1
        /\ \A i \in 1..Len(plist) :
            plist[i].form1 \in DOMAIN index /\ plist[i].form2 \in DOMAIN index
        /\ ~SharesForm(plist)
    /\ SharesForm(plist) => (pc \in {"indexing", "KeyError"} /\ option = <<>>)
    /\ pc = "KeyError" => (option = <<>> /\ particle = Euro)
    /\ (pc = "looked_up" /\ option \in DOMAIN index) =>
        (particle = plist[Min(Owners(option))] /\ HasForm(particle, option))

\* The fixed list is indexed: 24 keys, 은 looked up and bound to its owner.
C8_Witness ==
    /\ pc = "looked_up"
    /\ plist = PARTICLES
    /\ Cardinality(DOMAIN index) = 24
    /\ option = <<51008>>
    /\ particle = PARTICLES[1]

\* C9: ko called with a word that ends in a syllable and a non-empty option
\* that is no key of the registry raises nothing.
C9_UnresolvableSpec ==
    (/\ pc = "ko_done"
     /\ EndsInSyllable(word)
     /\ ko_option(name, option, format) # <<>>
     /\ ko_option(name, option, format) \notin DOMAIN particle_index)
        => ~Raised(result)

\* C10: normalization removes at most one token, a leading 이 or a leading
\* (이), and nothing elsewhere in the verb: the normalized verb is the verb
\* itself or the verb less that one leading token, and the string the
\* copula returns ends in what follows the first character of such a verb.
C10_NormalizeVerb ==
    (pc = "fuse_done" /\ result.kind = "ok") =>
        LET afterI == Tail(option)
            afterIParen == SubSeq(option, 4, Len(option))
            hasI == Len(option) >= 1 /\ option[1] = SYL_I
            hasIParen == Len(option) >= 3
                         /\ SubSeq(option, 1, 3) = <<LPAREN, SYL_I, RPAREN>>
            OneTokenLess == {option} \cup (IF hasI THEN {afterI} ELSE {})
                                     \cup (IF hasIParen THEN {afterIParen} ELSE {})
            n == Len(result.val)
        IN  /\ normalize_verb(option) \in OneTokenLess
            /\ \E nv \in OneTokenLess :
                 /\ nv # <<>>
                 /\ n >= Len(nv)
                 /\ SubSeq(result.val, n - Len(nv) + 2, n) = Tail(nv)

=============================================================================
